---- MODULE Spec2Model ----
(***************************************************************************)
(* WobbleScript front end (src/src/compiler.py): the tokenizer `lexer` and *)
(* the recursive-descent parser `parse`, as called in sequence by          *)
(* compile_file or (parse) directly on a token list.                       *)
(*                                                                         *)
(* Conventions.  A text is a sequence of one-character strings; positions  *)
(* and the parser's index are 0-based as in the source, so text[p] of the  *)
(* source is s[p + 1] here.  A token is the pair <<kind, lexeme>>.  Python *)
(* values that share a slot are encoded so that no two encodings are       *)
(* compared across types: None is <<>>, a str s is <<s>>, a bool is        *)
(* <<"bool", "True" | "False">>, a tuple is the tuple of its encodings.    *)
(*                                                                         *)
(* An operator that uses an argument several times binds its value once,   *)
(* as Python does for a local, in the form                                 *)
(*     CHOOSE r \in {body(q) : q \in {argument}} : TRUE                    *)
(* which is body(argument): the set has exactly one member.                *)
(***************************************************************************)
EXTENDS Integers, Sequences, FiniteSets, TLC

(***************************************************************************)
(* Characters and regular-expression primitives (module re)                *)
(***************************************************************************)
Lower == {"a","b","c","d","e","f","g","h","i","j","k","l","m",
          "n","o","p","q","r","s","t","u","v","w","x","y","z"}
Upper == {"A","B","C","D","E","F","G","H","I","J","K","L","M",
          "N","O","P","Q","R","S","T","U","V","W","X","Y","Z"}
Digit == {"0","1","2","3","4","5","6","7","8","9"}
\* \w
WordChar == Lower \cup Upper \cup Digit \cup {"_"}
\* [a-zA-Z_]
IdStart == Lower \cup Upper \cup {"_"}
\* \s
SpaceChar == {" ", "\t", "\n", "\r", "\f"}
\* [\w.]
WordOrDot == WordChar \cup {"."}

\* the value of a failed match (re's None)
NoMatch == 0 - 1

\* s[p] of the source, or "" past either end
CharAt(s, p) == IF p >= 0 /\ p < Len(s) THEN s[p + 1] ELSE ""

\* a literal: the position after lit when s has lit at p
Lit(s, p, lit) ==
    CHOOSE end \in
        {IF q # NoMatch /\ q + Len(lit) <= Len(s)
            /\ \A k \in 1..Len(lit) : s[q + k] = lit[k]
         THEN q + Len(lit) ELSE NoMatch : q \in {p}} : TRUE

\* C* (greedy): the position after the longest run of characters of C at p
RECURSIVE Star(_, _, _)
Star(s, p, C) ==
    CHOOSE end \in
        {IF q = NoMatch THEN NoMatch
         ELSE IF q < Len(s) /\ s[q + 1] \in C THEN Star(s, q + 1, C) ELSE q : q \in {p}} : TRUE

\* C+ (greedy)
Plus(s, p, C) ==
    CHOOSE end \in
        {IF q # NoMatch /\ q < Len(s) /\ s[q + 1] \in C THEN Star(s, q + 1, C)
         ELSE NoMatch : q \in {p}} : TRUE

\* [^...]* (greedy): the longest run of characters not in C
RECURSIVE StarNot(_, _, _)
StarNot(s, p, C) ==
    CHOOSE end \in
        {IF q = NoMatch THEN NoMatch
         ELSE IF q < Len(s) /\ s[q + 1] \notin C THEN StarNot(s, q + 1, C) ELSE q :
           q \in {p}} : TRUE

\* \b: exactly one of the characters before and at p is a word character
\* (re.match with a pos argument still sees the character before pos)
WordBoundary(s, p) ==
    \E q \in {p} :
        q # NoMatch /\ ((CharAt(s, q - 1) \in WordChar) # (CharAt(s, q) \in WordChar))

\* first alternative that matches, in order
Alt(ends) ==
    CHOOSE end \in
        {IF \E k \in 1..Len(e) : e[k] # NoMatch
         THEN e[CHOOSE k \in 1..Len(e) :
                   e[k] # NoMatch /\ \A j \in 1..(k - 1) : e[j] = NoMatch]
         ELSE NoMatch : e \in {ends}} : TRUE

\* (\.\w+)* (greedy)
RECURSIVE DotWords(_, _)
DotWords(s, p) ==
    CHOOSE end \in
        {IF q = NoMatch THEN NoMatch
         ELSE IF Plus(s, Lit(s, q, <<".">>), WordChar) # NoMatch
              THEN DotWords(s, Plus(s, Lit(s, q, <<".">>), WordChar))
              ELSE q : q \in {p}} : TRUE

\* (?:[^"\\]|\\.)*" from p: the position after the closing quote
RECURSIVE StringBody(_, _)
StringBody(s, p) ==
    IF p = NoMatch \/ p >= Len(s) THEN NoMatch
    ELSE IF s[p + 1] = "\"" THEN p + 1
    ELSE IF s[p + 1] = "\\"
         THEN IF p + 1 < Len(s) /\ s[p + 2] # "\n" THEN StringBody(s, p + 2) ELSE NoMatch
    ELSE StringBody(s, p + 1)

\* [\s\S]*?\*/ (lazy) from p: the position after the first "*/"
RECURSIVE UntilStarSlash(_, _)
UntilStarSlash(s, p) ==
    IF p = NoMatch \/ p >= Len(s) THEN NoMatch
    ELSE IF Lit(s, p, <<"*", "/">>) # NoMatch THEN p + 2
    ELSE UntilStarSlash(s, p + 1)

(***************************************************************************)
(* TOKEN_TYPES: each pattern as the end of its match at p, or NoMatch      *)
(***************************************************************************)
\* folder\s+(\w+(\.\w+)*)
ReFOLDER(s, p) ==
    DotWords(s, Plus(s, Plus(s, Lit(s, p, <<"f","o","l","d","e","r">>), SpaceChar), WordChar))

\* class\s+(\w+)
ReCLASS(s, p) ==
    Plus(s, Plus(s, Lit(s, p, <<"c","l","a","s","s">>), SpaceChar), WordChar)

\* \b[a-zA-Z_]\w*\b
IdentifierPattern(s, p) ==
    IF WordBoundary(s, p) /\ CharAt(s, p) \in IdStart
       /\ WordBoundary(s, Star(s, p + 1, WordChar))
    THEN Star(s, p + 1, WordChar) ELSE NoMatch

\* \bword\b for a literal word
BoundedWord(s, p, lit) ==
    IF WordBoundary(s, p) /\ WordBoundary(s, Lit(s, p, lit)) THEN Lit(s, p, lit) ELSE NoMatch

\* ("[^"]*"|\btrue\b|\bfalse\b|\b[a-zA-Z_]\w*\b)
ReVariableValue(s, p) ==
    CHOOSE end \in
        {Alt(<< Lit(s, StarNot(s, Lit(s, q, <<"\"">>), {"\""}), <<"\"">>),
                BoundedWord(s, q, <<"t","r","u","e">>),
                BoundedWord(s, q, <<"f","a","l","s","e">>),
                IdentifierPattern(s, q) >>) : q \in {p}} : TRUE

\* variable\s+(\w+)(->\w+)?\s*=\s*(value)
ReVARIABLE(s, p) ==
    CHOOSE end \in
        {ReVariableValue(s, Star(s, Lit(s, Star(s, arrow, SpaceChar), <<"=">>), SpaceChar)) :
           arrow \in UNION {{IF ann # NoMatch THEN ann ELSE name :
                               ann \in {Plus(s, Lit(s, name, <<"-", ">">>), WordChar)}} :
                             name \in {Plus(s, Plus(s, Lit(s, p, <<"v","a","r","i","a","b","l","e">>),
                                                    SpaceChar), WordChar)}}} : TRUE

\* function\s+(\w+)
ReFUNCTION(s, p) ==
    Plus(s, Plus(s, Lit(s, p, <<"f","u","n","c","t","i","o","n">>), SpaceChar), WordChar)

\* if
ReIF(s, p) == Lit(s, p, <<"i","f">>)

\* not
ReNOT(s, p) == Lit(s, p, <<"n","o","t">>)

\* but if|otherwise
ReELSE(s, p) ==
    Alt(<< Lit(s, p, <<"b","u","t"," ","i","f">>),
           Lit(s, p, <<"o","t","h","e","r","w","i","s","e">>) >>)

\* import\s+([\w.]+)
ReIMPORT(s, p) ==
    Plus(s, Plus(s, Lit(s, p, <<"i","m","p","o","r","t">>), SpaceChar), WordOrDot)

\* \b[a-zA-Z_]\w*\b
ReIDENTIFIER(s, p) == IdentifierPattern(s, p)

\* "(?:[^"\\]|\\.)*"
ReSTRING(s, p) == StringBody(s, Lit(s, p, <<"\"">>))

\* //.*|/\*[\s\S]*?\*/
ReCOMMENT(s, p) ==
    Alt(<< StarNot(s, Lit(s, p, <<"/", "/">>), {"\n"}),
           UntilStarSlash(s, Lit(s, p, <<"/", "*">>)) >>)

ReLPAREN(s, p) == Lit(s, p, <<"(">>)
ReRPAREN(s, p) == Lit(s, p, <<")">>)
ReLBRACE(s, p) == Lit(s, p, <<"{">>)
ReRBRACE(s, p) == Lit(s, p, <<"}">>)
ReSEMICOLON(s, p) == Lit(s, p, <<";">>)
ReDOT(s, p) == Lit(s, p, <<".">>)
\* yeet
ReYEET(s, p) == Lit(s, p, <<"y","e","e","t">>)
\* ->
ReARROW(s, p) == Lit(s, p, <<"-", ">">>)
\* true|false
ReBOOLEAN(s, p) ==
    Alt(<< Lit(s, p, <<"t","r","u","e">>), Lit(s, p, <<"f","a","l","s","e">>) >>)

\* the rule names, in declaration order
TOKEN_TYPES ==
    << "FOLDER", "CLASS", "VARIABLE", "FUNCTION", "IF", "NOT", "ELSE", "IMPORT",
       "IDENTIFIER", "STRING", "COMMENT", "LPAREN", "RPAREN", "LBRACE", "RBRACE",
       "SEMICOLON", "DOT", "YEET", "ARROW", "BOOLEAN" >>

\* regex.match(input_text, position) for the k-th rule: the match's end
RuleMatch(k, s, p) ==
    CASE TOKEN_TYPES[k] = "FOLDER"     -> ReFOLDER(s, p)
      [] TOKEN_TYPES[k] = "CLASS"      -> ReCLASS(s, p)
      [] TOKEN_TYPES[k] = "VARIABLE"   -> ReVARIABLE(s, p)
      [] TOKEN_TYPES[k] = "FUNCTION"   -> ReFUNCTION(s, p)
      [] TOKEN_TYPES[k] = "IF"         -> ReIF(s, p)
      [] TOKEN_TYPES[k] = "NOT"        -> ReNOT(s, p)
      [] TOKEN_TYPES[k] = "ELSE"       -> ReELSE(s, p)
      [] TOKEN_TYPES[k] = "IMPORT"     -> ReIMPORT(s, p)
      [] TOKEN_TYPES[k] = "IDENTIFIER" -> ReIDENTIFIER(s, p)
      [] TOKEN_TYPES[k] = "STRING"     -> ReSTRING(s, p)
      [] TOKEN_TYPES[k] = "COMMENT"    -> ReCOMMENT(s, p)
      [] TOKEN_TYPES[k] = "LPAREN"     -> ReLPAREN(s, p)
      [] TOKEN_TYPES[k] = "RPAREN"     -> ReRPAREN(s, p)
      [] TOKEN_TYPES[k] = "LBRACE"     -> ReLBRACE(s, p)
      [] TOKEN_TYPES[k] = "RBRACE"     -> ReRBRACE(s, p)
      [] TOKEN_TYPES[k] = "SEMICOLON"  -> ReSEMICOLON(s, p)
      [] TOKEN_TYPES[k] = "DOT"        -> ReDOT(s, p)
      [] TOKEN_TYPES[k] = "YEET"       -> ReYEET(s, p)
      [] TOKEN_TYPES[k] = "ARROW"      -> ReARROW(s, p)
      [] TOKEN_TYPES[k] = "BOOLEAN"    -> ReBOOLEAN(s, p)

KEYWORDS == {"if", "not", "but", "otherwise", "yeet", "import"}

\* str.upper() on the keywords
StrUpper(v) ==
    CASE v = "if" -> "IF" [] v = "not" -> "NOT" [] v = "but" -> "BUT"
      [] v = "otherwise" -> "OTHERWISE" [] v = "yeet" -> "YEET"
      [] v = "import" -> "IMPORT" [] OTHER -> v

\* ''.join of a sequence of one-character strings
RECURSIVE Join(_)
Join(cs) == IF cs = <<>> THEN "" ELSE Head(cs) \o Join(Tail(cs))

\* match.group(0)
Group0(s, start, end) == Join(SubSeq(s, start + 1, end))

\* the match object left by the for loop: None (no rule matched), or the first
\* rule in TOKEN_TYPES order that matches at p, with its span
NoneMatch == [rule |-> 0, start |-> NoMatch, end |-> NoMatch]
\* a faulty variant of FirstRuleFrom: among the rules from k on it takes one
\* with the longest match
LongestRuleFrom(k, s, p) ==
    LET matching == {j \in k..Len(TOKEN_TYPES) : RuleMatch(j, s, p) # NoMatch}
    IN  IF matching = {} THEN 0
        ELSE CHOOSE j \in matching :
                 \A l \in matching :
                     \/ RuleMatch(l, s, p) < RuleMatch(j, s, p)
                     \/ RuleMatch(l, s, p) = RuleMatch(j, s, p) /\ j <= l

RECURSIVE FirstRuleFrom(_, _, _)
FirstRuleFrom(k, s, p) ==
    IF k > Len(TOKEN_TYPES) THEN 0
    ELSE IF RuleMatch(k, s, p) # NoMatch THEN k
    ELSE FirstRuleFrom(k + 1, s, p)
ForLoop(s, p) ==
    CHOOSE m \in
        {IF k = 0 THEN NoneMatch
         ELSE [rule |-> k, start |-> p, end |-> RuleMatch(k, s, p)] :
           k \in {FirstRuleFrom(1, s, p)}} : TRUE

\* token_type after the keyword re-classification of an IDENTIFIER match
TokenType(s, m) ==
    CHOOSE token_type \in
        {IF TOKEN_TYPES[n.rule] = "IDENTIFIER" /\ Group0(s, n.start, n.end) \in KEYWORDS
         THEN StrUpper(Group0(s, n.start, n.end))
         ELSE TOKEN_TYPES[n.rule] : n \in {m}} : TRUE

\* tokens after one iteration with match m: comments are not appended
AppendToken(toks, s, m) ==
    CHOOSE appended \in
        {IF TokenType(s, n) # "COMMENT"
         THEN Append(toks, <<TokenType(s, n), Group0(s, n.start, n.end)>>)
         ELSE toks : n \in {m}} : TRUE

(***************************************************************************)
(* Exceptions, Node, and the parser's nested functions                     *)
(***************************************************************************)
\* Python's None
None == <<>>
PyStr(v) == <<v>>
PyBool(b) == <<"bool", IF b THEN "True" ELSE "False">>

\* no exception in flight
NoError == [exc |-> "", msg |-> "", expected |-> "", found |-> None, position |-> NoMatch]

\* a faulty variant of LexerError: it reports the position after the
\* unmatched one
LexerErrorAtNextPosition(p) ==
    [exc |-> "Exception", msg |-> "Lexer error: Unrecognized token at position",
     expected |-> "", found |-> <<>>, position |-> p + 1]

\* raise Exception('Lexer error: Unrecognized token at position ' + str(position))
LexerError(p) ==
    [exc |-> "Exception", msg |-> "Lexer error: Unrecognized token at position",
     expected |-> "", found |-> None, position |-> p]

\* lexer(input_text) from the state of its while loop: the exception raised
\* (NoError when it returns), the tokens, the cursor and the last match
RECURSIVE lexer_from(_, _, _, _)
lexer_from(s, p, toks, last) ==
    IF ~(p < Len(s))
    THEN [raised |-> NoError, tokens |-> toks, position |-> p, match |-> last]
    ELSE IF ForLoop(s, p) = NoneMatch
         THEN [raised |-> LexerError(p), tokens |-> toks, position |-> p, match |-> NoneMatch]
         ELSE lexer_from(s, ForLoop(s, p).end, AppendToken(toks, s, ForLoop(s, p)),
                         ForLoop(s, p))

lexer(s) == lexer_from(s, 0, <<>>, NoneMatch)

\* raise Exception(f'Parser error: Expected {token_type}, found {token}')
ExpectedError(token_type, token) ==
    [exc |-> "Exception", msg |-> "Parser error: Expected, found",
     expected |-> token_type, found |-> token, position |-> NoMatch]

\* raise Exception(f'Parser error: Unexpected token {token}')
UnexpectedToken(token) ==
    [exc |-> "Exception", msg |-> "Parser error: Unexpected token",
     expected |-> "", found |-> token, position |-> NoMatch]

\* raise Exception('Parser error: Unexpected value')
UnexpectedValue ==
    [exc |-> "Exception", msg |-> "Parser error: Unexpected value",
     expected |-> "", found |-> None, position |-> NoMatch]

\* None[0]: TypeError: 'NoneType' object is not subscriptable
NotSubscriptable ==
    [exc |-> "TypeError", msg |-> "'NoneType' object is not subscriptable",
     expected |-> "", found |-> None, position |-> NoMatch]

\* peek(1): TypeError: peek() takes 0 positional arguments but 1 was given
TooManyArguments ==
    [exc |-> "TypeError", msg |-> "peek() takes 0 positional arguments but 1 was given",
     expected |-> "", found |-> None, position |-> NoMatch]

\* Node(type, children, value)
Node(type, children, value) == [type |-> type, children |-> children, value |-> value]

\* the outcome of a nested function called with the index at i: the index it
\* leaves, and either the value it returns or the exception it raises
Ok(i, v) == [err |-> NoError, index |-> i, val |-> v]
Raise(e, i) == [err |-> e, index |-> i, val |-> None]
IsOk(r) == r.err.exc = ""

\* peek()
peek(toks, i) == IF i < Len(toks) THEN toks[i + 1] ELSE None

\* the number of positional parameters peek is defined with
PeekParams == 0

\* a faulty variant of consume: it advances past a token of another kind
\* before raising
consume_skips_mismatch(toks, i, token_type) ==
    IF peek(toks, i) # None /\ peek(toks, i)[1] = token_type
    THEN Ok(i + 1, peek(toks, i))
    ELSE Raise(ExpectedError(token_type, peek(toks, i)), i + 1)

\* consume(token_type)
consume(toks, i, token_type) ==
    IF peek(toks, i) # None /\ peek(toks, i)[1] = token_type
    THEN Ok(i + 1, peek(toks, i))
    ELSE Raise(ExpectedError(token_type, peek(toks, i)), i)

\* run the rest K of a function body on the value of a call that returned;
\* a call that raised ends the function with its exception
Then(r, K(_)) == CHOOSE result \in {IF IsOk(v) THEN K(v) ELSE v : v \in {r}} : TRUE

\* the while loop of parse_import, with module_name so far
RECURSIVE import_loop(_, _, _)
import_loop(toks, i, module_name) ==
    IF peek(toks, i) # None /\ peek(toks, i)[1] = "DOT"
    THEN Then(consume(toks, i, "DOT"), LAMBDA d :
         Then(consume(toks, d.index, "IDENTIFIER"), LAMBDA n :
         import_loop(toks, n.index, module_name \o "." \o n.val[2])))
    ELSE Ok(i, module_name)

parse_import(toks, i) ==
    Then(consume(toks, i, "IMPORT"), LAMBDA k :
    Then(consume(toks, k.index, "IDENTIFIER"), LAMBDA n :
    Then(import_loop(toks, n.index, n.val[2]), LAMBDA module_name :
    Then(consume(toks, module_name.index, "SEMICOLON"), LAMBDA e :
    Ok(e.index, Node("IMPORT", <<>>, PyStr(module_name.val)))))))

\* returns None
parse_folder(toks, i) ==
    Then(consume(toks, i, "FOLDER"), LAMBDA k : Ok(k.index, None))

parse_class(toks, i) ==
    Then(consume(toks, i, "CLASS"), LAMBDA k :
    Then(consume(toks, k.index, "IDENTIFIER"), LAMBDA name :
    Ok(name.index, Node("CLASS", <<>>, PyStr(name.val[2])))))

parse_value(toks, i) ==
    IF peek(toks, i) = None THEN Raise(NotSubscriptable, i)
    ELSE IF peek(toks, i)[1] = "STRING"
         THEN Then(consume(toks, i, "STRING"), LAMBDA c : Ok(c.index, PyStr(c.val[2])))
    ELSE IF peek(toks, i)[1] = "BOOLEAN"
         THEN Ok(i, PyBool(peek(toks, i)[2] = "true"))
    ELSE IF peek(toks, i)[1] = "IDENTIFIER"
         THEN Then(consume(toks, i, "IDENTIFIER"), LAMBDA c : Ok(c.index, PyStr(c.val[2])))
    ELSE Raise(UnexpectedValue, i)

\* the optional annotation of parse_variable: arrow, and the index after it
parse_arrow(toks, i) ==
    IF peek(toks, i) = None THEN Raise(NotSubscriptable, i)
    ELSE IF peek(toks, i)[1] = "ARROW"
         THEN Then(consume(toks, i, "ARROW"), LAMBDA a :
              Then(consume(toks, a.index, "IDENTIFIER"), LAMBDA t :
              Ok(t.index, PyStr(t.val[2]))))
    ELSE Ok(i, None)

parse_variable(toks, i) ==
    Then(consume(toks, i, "VARIABLE"), LAMBDA k :
    Then(consume(toks, k.index, "IDENTIFIER"), LAMBDA name :
    Then(parse_arrow(toks, name.index), LAMBDA arrow :
    Then(consume(toks, arrow.index, "EQUALS"), LAMBDA e :
    Then(parse_value(toks, e.index), LAMBDA value :
    Ok(value.index,
       Node("VARIABLE", <<>>, <<PyStr(name.val[2]), arrow.val, value.val>>)))))))

parse_function(toks, i) ==
    Then(consume(toks, i, "FUNCTION"), LAMBDA k :
    Then(consume(toks, k.index, "IDENTIFIER"), LAMBDA name :
    Ok(name.index, Node("FUNCTION", <<>>, PyStr(name.val[2])))))

parse_identifier(toks, i) ==
    Then(consume(toks, i, "IDENTIFIER"), LAMBDA token :
    Ok(token.index, Node("IDENTIFIER", <<>>, PyStr(token.val[2]))))

parse_string(toks, i) ==
    Then(consume(toks, i, "STRING"), LAMBDA token :
    Ok(token.index, Node("STRING", <<>>, PyStr(token.val[2]))))

parse_expression(toks, i) ==
    IF peek(toks, i) = None THEN Raise(NotSubscriptable, i)
    ELSE IF peek(toks, i)[1] = "IDENTIFIER" THEN parse_identifier(toks, i)
    ELSE IF peek(toks, i)[1] = "STRING" THEN parse_string(toks, i)
    ELSE Raise(UnexpectedToken(peek(toks, i)), i)

\* the while loop of parse_function_call, with the arguments so far
RECURSIVE arguments_loop(_, _, _)
arguments_loop(toks, i, arguments) ==
    IF peek(toks, i) = None THEN Raise(NotSubscriptable, i)
    ELSE IF peek(toks, i)[1] = "SEMICOLON"
         THEN Then(consume(toks, i, "SEMICOLON"), LAMBDA c :
              Then(parse_expression(toks, c.index), LAMBDA x :
              arguments_loop(toks, x.index, Append(arguments, x.val))))
    ELSE Ok(i, arguments)

\* the argument list of parse_function_call, from the token after LPAREN
parse_arguments(toks, i) ==
    IF peek(toks, i) = None THEN Raise(NotSubscriptable, i)
    ELSE IF peek(toks, i)[1] # "RPAREN"
         THEN Then(parse_expression(toks, i), LAMBDA x :
              arguments_loop(toks, x.index, <<x.val>>))
    ELSE Ok(i, <<>>)

parse_function_call(toks, i) ==
    Then(consume(toks, i, "IDENTIFIER"), LAMBDA identifier :
    Then(consume(toks, identifier.index, "LPAREN"), LAMBDA l :
    Then(parse_arguments(toks, l.index), LAMBDA arguments :
    Then(consume(toks, arguments.index, "RPAREN"), LAMBDA r :
    Ok(r.index,
       Node("FUNCTION_CALL",
            <<Node("IDENTIFIER", <<>>, PyStr(identifier.val[2]))>> \o arguments.val,
            None))))))

parse_assignment(toks, i) ==
    Then(parse_variable(toks, i), LAMBDA variable :
    Then(consume(toks, variable.index, "SEMICOLON"), LAMBDA e :
    Ok(e.index, Node("ASSIGNMENT", <<variable.val>>, None))))

\* a faulty variant of parse_yeet: it leaves the SEMICOLON unconsumed
parse_yeet_keeps_semicolon(toks, i) ==
    Then(consume(toks, i, "YEET"), LAMBDA k :
    Then(consume(toks, k.index, "STRING"), LAMBDA error :
    Ok(error.index, Node("YEET", <<>>, PyStr(error.val[2])))))

parse_yeet(toks, i) ==
    Then(consume(toks, i, "YEET"), LAMBDA k :
    Then(consume(toks, k.index, "STRING"), LAMBDA error :
    Then(consume(toks, error.index, "SEMICOLON"), LAMBDA e :
    Ok(e.index, Node("YEET", <<>>, PyStr(error.val[2]))))))

\* a call of peek with n positional arguments
peek_with(toks, i, n) ==
    IF n # PeekParams THEN Raise(TooManyArguments, i)
    ELSE Ok(i, peek(toks, i))

RECURSIVE parse_if(_, _)
RECURSIVE parse_body(_, _)
RECURSIVE body_loop(_, _, _)
RECURSIVE parse_statement(_, _)

parse_if(toks, i) ==
    Then(consume(toks, i, "IF"), LAMBDA k :
    Then(parse_expression(toks, k.index), LAMBDA condition :
    Then(parse_body(toks, condition.index), LAMBDA body :
    Ok(body.index, Node("IF", <<condition.val, body.val>>, None)))))

\* a faulty variant of body_loop: it puts each statement before the earlier
\* ones
body_loop_prepends(toks, i, statements) ==
    IF peek(toks, i) # None /\ peek(toks, i)[1] # "RBRACE"
    THEN Then(parse_statement(toks, i), LAMBDA statement :
         body_loop(toks, statement.index, <<statement.val>> \o statements))
    ELSE Ok(i, statements)

\* the while loop of parse_body, with the statements so far
body_loop(toks, i, statements) ==
    IF peek(toks, i) # None /\ peek(toks, i)[1] # "RBRACE"
    THEN Then(parse_statement(toks, i), LAMBDA statement :
         body_loop(toks, statement.index, Append(statements, statement.val)))
    ELSE Ok(i, statements)

parse_body(toks, i) ==
    Then(consume(toks, i, "LBRACE"), LAMBDA l :
    Then(body_loop(toks, l.index, <<>>), LAMBDA statements :
    Then(consume(toks, statements.index, "RBRACE"), LAMBDA r :
    Ok(r.index, Node("BODY", statements.val, None)))))

\* the IDENTIFIER branch of parse_statement: `peek(1) and peek(1)[0] == 'LPAREN'`
parse_identifier_statement(toks, i) ==
    Then(peek_with(toks, i, 1), LAMBDA ahead :
    IF ahead.val # None /\ ahead.val[1] = "LPAREN"
    THEN parse_function_call(toks, i)
    ELSE parse_assignment(toks, i))

parse_statement(toks, i) ==
    IF peek(toks, i) = None THEN Raise(NotSubscriptable, i)
    ELSE IF peek(toks, i)[1] = "IF" THEN parse_if(toks, i)
    ELSE IF peek(toks, i)[1] = "IDENTIFIER" THEN parse_identifier_statement(toks, i)
    ELSE IF peek(toks, i)[1] = "YEET" THEN parse_yeet(toks, i)
    ELSE IF peek(toks, i)[1] = "IMPORT" THEN parse_import(toks, i)
    ELSE Raise(UnexpectedToken(peek(toks, i)), i)

\* one iteration of parse's while loop at a token: the call of its branch
iteration(toks, i) ==
    IF peek(toks, i)[1] = "FOLDER" THEN parse_folder(toks, i)
    ELSE IF peek(toks, i)[1] = "CLASS" THEN parse_class(toks, i)
    ELSE IF peek(toks, i)[1] = "VARIABLE" THEN parse_variable(toks, i)
    ELSE IF peek(toks, i)[1] = "FUNCTION" THEN parse_function(toks, i)
    ELSE IF peek(toks, i)[1] = "IF" THEN parse_if(toks, i)
    ELSE IF peek(toks, i)[1] = "COMMENT" THEN Ok(i + 1, None)
    ELSE IF peek(toks, i)[1] = "IMPORT" THEN parse_import(toks, i)
    ELSE Raise(UnexpectedToken(peek(toks, i)), i)

\* parse's while loop from index i with the list ast so far; the FOLDER and
\* COMMENT branches append nothing
RECURSIVE parse_loop(_, _, _)
parse_loop(toks, i, nodes) ==
    IF peek(toks, i) = None THEN Ok(i, nodes)
    ELSE Then(iteration(toks, i), LAMBDA r :
         parse_loop(toks, r.index,
                    IF peek(toks, i)[1] \in {"FOLDER", "COMMENT"} THEN nodes
                    ELSE Append(nodes, r.val)))

\* parse(tokens)
parse(toks) == parse_loop(toks, 0, <<>>)

(***************************************************************************)
(* Inputs                                                                  *)
(***************************************************************************)
\* an input text is at most MaxFragments pieces of source text, end to end
MaxFragments == 2
\* a token list handed to parse is at most MaxPhrases token phrases, end to end
MaxPhrases == 3

TextFragments ==
    { <<"i","m","p","o","r","t"," ","a",".","b",".","c">>,
      <<";">>,
      <<"v","a","r","i","a","b","l","e"," ","x"," ","="," ","\"","a","\"",";">>,
      <<" ","/","/"," ","n","o","t","e","\n">>,
      <<"v","a","r","i","a","b","l","e"," ","x","-",">","t","=","t","r","u","e">>,
      <<"v","a","r","i","a","b","l","e"," ","y"," ","="," ","z">>,
      <<"c","l","a","s","s"," ","A">>,
      <<"f","u","n","c","t","i","o","n"," ","f">>,
      <<")">>,
      <<"@">>,
      <<"/","*","*","/">>,
      <<"B">>,
      <<"i","f">>,
      <<"\"","c","\"">>,
      <<"{","y","e","e","t","\"","m","\"",";","}">>,
      <<"/","/","n">>,
      <<"f","o","l","d","e","r"," ","a">>,
      <<"\"">>,
      <<" ">>,
      <<"i","m","p","o","r","t">>,
      <<"e","r">>,
      <<"b","u","t">>,
      <<"y","e","e","t">>,
      <<"t","r","u","e">>,
      <<"-",">">> }

TokenPhrases ==
    { << <<"IF", "if">> >>,
      << <<"IF", "if">>, <<"IDENTIFIER", "x">>, <<"LBRACE", "{">> >>,
      << <<"RBRACE", "}">> >>,
      << <<"YEET", "yeet">>, <<"STRING", "\"boom\"">>, <<"SEMICOLON", ";">> >>,
      << <<"IDENTIFIER", "say">>, <<"LPAREN", "(">>, <<"STRING", "\"hi\"">>,
         <<"SEMICOLON", ";">>, <<"STRING", "\"there\"">>, <<"RPAREN", ")">> >>,
      << <<"IDENTIFIER", "say">>, <<"LPAREN", "(">> >>,
      << <<"IMPORT", "import">>, <<"IDENTIFIER", "a">>, <<"DOT", ".">>,
         <<"IDENTIFIER", "b">>, <<"SEMICOLON", ";">> >>,
      << <<"IMPORT", "import">> >>,
      << <<"FOLDER", "folder a">> >>,
      << <<"CLASS", "class A">> >>,
      << <<"IDENTIFIER", "A">> >>,
      << <<"FUNCTION", "function f">> >>,
      << <<"VARIABLE", "variable">>, <<"IDENTIFIER", "x">> >>,
      << <<"ARROW", "->">>, <<"IDENTIFIER", "t">>, <<"EQUALS", "=">> >>,
      << <<"EQUALS", "=">> >>,
      << <<"BOOLEAN", "true">> >>,
      << <<"STRING", "\"a\"">> >>,
      << <<"COMMENT", "//n">> >>,
      << <<"SEMICOLON", ";">> >>,
      << <<"IMPORT", "import">>, <<"IDENTIFIER", "a">>, <<"SEMICOLON", ";">>,
         <<"YEET", "yeet">>, <<"STRING", "\"m\"">>, <<"SEMICOLON", ";">>,
         <<"RBRACE", "}">> >> }

\* the sequences made of at most n members of parts, end to end
RECURSIVE Concats(_, _)
Concats(parts, n) ==
    IF n = 0 THEN {<<>>}
    ELSE Concats(parts, n - 1) \cup {a \o f : a \in Concats(parts, n - 1), f \in parts}

Texts == Concats(TextFragments, MaxFragments)
TokenLists == Concats(TokenPhrases, MaxPhrases)

(***************************************************************************)
(* State                                                                   *)
(***************************************************************************)
VARIABLES
    input_text,   \* lexer's argument
    position,     \* lexer's cursor
    lex_tokens,   \* lexer's list `tokens`
    match,        \* lexer's `match` after the for loop
    tokens,       \* parse's argument (compile_file's `tokens`)
    index,        \* parse's index
    ast,          \* parse's list `ast`
    pc,           \* "lexer", "parse", "returned", "lexer_raised", "parse_raised"
    raised        \* the exception that ended the run, or NoError

lexer_vars == <<input_text, position, lex_tokens, match>>
parse_vars == <<tokens, index, ast>>
vars == <<input_text, position, lex_tokens, match, tokens, index, ast, pc, raised>>

\* compile_file(file_path) on a file holding the text: lexer starts
InitCompile ==
    /\ input_text \in Texts
    /\ position = 0
    /\ lex_tokens = <<>>
    /\ match = NoneMatch
    /\ tokens = <<>>
    /\ index = 0
    /\ ast = <<>>
    /\ pc = "lexer"
    /\ raised = NoError

\* parse(tokens) called on a token list
InitParse ==
    /\ input_text = <<>>
    /\ position = 0
    /\ lex_tokens = <<>>
    /\ match = NoneMatch
    /\ tokens \in TokenLists
    /\ index = 0
    /\ ast = <<>>
    /\ pc = "parse"
    /\ raised = NoError

Init == InitCompile \/ InitParse

(***************************************************************************)
(* lexer: one iteration of the while loop per step                         *)
(***************************************************************************)
\* a rule matched and its token is appended
LexerAppend ==
    /\ pc = "lexer"
    /\ position < Len(input_text)
    /\ ForLoop(input_text, position) # NoneMatch
    /\ TokenType(input_text, ForLoop(input_text, position)) # "COMMENT"
    /\ match' = ForLoop(input_text, position)
    /\ lex_tokens' = AppendToken(lex_tokens, input_text, match')
    /\ position' = match'.end
    /\ UNCHANGED <<input_text, tokens, index, ast, pc, raised>>

\* a faulty variant of LexerComment: the cursor also passes the character
\* after the comment
LexerCommentSkipsNext ==
    /\ pc = "lexer"
    /\ position < Len(input_text)
    /\ ForLoop(input_text, position) # NoneMatch
    /\ TokenType(input_text, ForLoop(input_text, position)) = "COMMENT"
    /\ match' = ForLoop(input_text, position)
    /\ lex_tokens' = lex_tokens
    /\ position' = match'.end + 1
    /\ UNCHANGED <<input_text, tokens, index, ast, pc, raised>>

\* the COMMENT rule matched: nothing is appended
LexerComment ==
    /\ pc = "lexer"
    /\ position < Len(input_text)
    /\ ForLoop(input_text, position) # NoneMatch
    /\ TokenType(input_text, ForLoop(input_text, position)) = "COMMENT"
    /\ match' = ForLoop(input_text, position)
    /\ lex_tokens' = AppendToken(lex_tokens, input_text, match')
    /\ position' = match'.end
    /\ UNCHANGED <<input_text, tokens, index, ast, pc, raised>>

\* no rule matched: raise
LexerRaise ==
    /\ pc = "lexer"
    /\ position < Len(input_text)
    /\ ForLoop(input_text, position) = NoneMatch
    /\ match' = NoneMatch
    /\ pc' = "lexer_raised"
    /\ raised' = LexerError(position)
    /\ UNCHANGED <<input_text, position, lex_tokens, tokens, index, ast>>

\* return tokens; compile_file hands them to parse
LexerReturn ==
    /\ pc = "lexer"
    /\ ~(position < Len(input_text))
    /\ tokens' = lex_tokens
    /\ index' = 0
    /\ ast' = <<>>
    /\ pc' = "parse"
    /\ UNCHANGED <<input_text, position, lex_tokens, match, raised>>

(***************************************************************************)
(* parse: one iteration of the top-level while loop per step               *)
(***************************************************************************)
\* the loop is at a token of this kind
AtTopLevel(kind) ==
    /\ pc = "parse"
    /\ peek(tokens, index) # None
    /\ peek(tokens, index)[1] = kind

\* the effect of a branch whose nested function ended as r; append says
\* whether the branch appends the value to ast
Branch(r, append) ==
    /\ index' = r.index
    /\ IF IsOk(r)
       THEN /\ ast' = IF append THEN Append(ast, r.val) ELSE ast
            /\ UNCHANGED <<pc, raised>>
       ELSE /\ pc' = "parse_raised"
            /\ raised' = r.err
            /\ UNCHANGED ast
    /\ UNCHANGED <<input_text, position, lex_tokens, match, tokens>>

\* a faulty variant of ParseFolder: it appends what parse_folder returns
ParseFolderKeepsValue == AtTopLevel("FOLDER") /\ Branch(parse_folder(tokens, index), TRUE)

ParseFolder == AtTopLevel("FOLDER") /\ Branch(parse_folder(tokens, index), FALSE)

ParseClass == AtTopLevel("CLASS") /\ Branch(parse_class(tokens, index), TRUE)

ParseVariable == AtTopLevel("VARIABLE") /\ Branch(parse_variable(tokens, index), TRUE)

ParseFunction == AtTopLevel("FUNCTION") /\ Branch(parse_function(tokens, index), TRUE)

ParseIf == AtTopLevel("IF") /\ Branch(parse_if(tokens, index), TRUE)

\* a faulty variant of ParseComment: the index stays at the COMMENT token
ParseCommentKeepsIndex == AtTopLevel("COMMENT") /\ Branch(Ok(index, None), FALSE)

ParseComment == AtTopLevel("COMMENT") /\ Branch(Ok(index + 1, None), FALSE)

ParseImport == AtTopLevel("IMPORT") /\ Branch(parse_import(tokens, index), TRUE)

\* the kinds the if/elif chain of the loop has a branch for
TopLevelKinds == {"FOLDER", "CLASS", "VARIABLE", "FUNCTION", "IF", "COMMENT", "IMPORT"}

\* a faulty variant of ParseUnexpected: it skips the token and carries on
ParseUnexpectedSkipsToken ==
    /\ pc = "parse"
    /\ peek(tokens, index) # None
    /\ peek(tokens, index)[1] \notin {"FOLDER", "CLASS", "VARIABLE", "FUNCTION",
                                      "IF", "COMMENT", "IMPORT"}
    /\ index' = index + 1
    /\ UNCHANGED <<input_text, position, lex_tokens, match, tokens, ast, pc, raised>>

\* else: raise
ParseUnexpected ==
    /\ pc = "parse"
    /\ peek(tokens, index) # None
    /\ peek(tokens, index)[1] \notin TopLevelKinds
    /\ Branch(Raise(UnexpectedToken(peek(tokens, index)), index), FALSE)

\* the loop ends: return ast
ParseReturn ==
    /\ pc = "parse"
    /\ peek(tokens, index) = None
    /\ pc' = "returned"
    /\ UNCHANGED <<input_text, position, lex_tokens, match, tokens, index, ast, raised>>

Next ==
    \/ LexerAppend
    \/ LexerComment
    \/ LexerRaise
    \/ LexerReturn
    \/ ParseFolder
    \/ ParseClass
    \/ ParseVariable
    \/ ParseFunction
    \/ ParseIf
    \/ ParseComment
    \/ ParseImport
    \/ ParseUnexpected
    \/ ParseReturn

Spec == Init /\ [][Next]_vars

\* before the call of compile_file or parse
NotCalled ==
    /\ input_text = <<>>
    /\ position = 0
    /\ lex_tokens = <<>>
    /\ match = NoneMatch
    /\ tokens = <<>>
    /\ index = 0
    /\ ast = <<>>
    /\ pc = "start"
    /\ raised = NoError

\* compile_file is called on a file holding a text
CallCompile ==
    /\ pc = "start"
    /\ input_text' \in Texts
    /\ pc' = "lexer"
    /\ UNCHANGED <<position, lex_tokens, match, tokens, index, ast, raised>>

\* parse is called on a token list
CallParse ==
    /\ pc = "start"
    /\ tokens' \in TokenLists
    /\ pc' = "parse"
    /\ UNCHANGED <<input_text, position, lex_tokens, match, index, ast, raised>>

LiveNext == CallCompile \/ CallParse \/ Next

\* the program is called and keeps running: a call that can take a step
\* takes it
LiveSpec == NotCalled /\ [][LiveNext]_vars /\ WF_vars(LiveNext)

(***************************************************************************)
(* Properties                                                              *)
(***************************************************************************)
\* the run is over: parse returned, or lexer or parse raised
Finished == pc \in {"returned", "lexer_raised", "parse_raised"}

\* an exception raised by one of the parser's own raise statements
IsParserError(e) ==
    /\ e.exc = "Exception"
    /\ e.msg \in {"Parser error: Expected, found", "Parser error: Unexpected token",
                  "Parser error: Unexpected value"}

\* the leaf node of an expression token (IDENTIFIER or STRING)
ExpressionNode(token) == [type |-> token[1], children |-> <<>>, value |-> <<token[2]>>]

IsExpressionToken(token) == token[1] \in {"IDENTIFIER", "STRING"}

\* toks is  IDENTIFIER LPAREN [ expr { SEMICOLON expr } ] RPAREN
IsCall(toks) ==
    /\ Len(toks) >= 3
    /\ toks[1][1] = "IDENTIFIER"
    /\ toks[2][1] = "LPAREN"
    /\ toks[Len(toks)][1] = "RPAREN"
    /\ \/ Len(toks) = 3
       \/ /\ Len(toks) % 2 = 0
          /\ \A k \in 3..(Len(toks) - 1) :
                IF k % 2 = 1 THEN IsExpressionToken(toks[k]) ELSE toks[k][1] = "SEMICOLON"

\* the FUNCTION_CALL node the call toks stands for
CallNode(toks) ==
    [type |-> "FUNCTION_CALL",
     children |-> <<[type |-> "IDENTIFIER", children |-> <<>>, value |-> <<toks[1][2]>>]>>
                  \o [k \in 1..((Len(toks) - 2) \div 2) |-> ExpressionNode(toks[2 * k + 1])],
     value |-> <<>>]

\* tokens is  IF expr LBRACE <call> RBRACE
IsIfWithOneCall ==
    /\ Len(tokens) >= 7
    /\ tokens[1][1] = "IF"
    /\ IsExpressionToken(tokens[2])
    /\ tokens[3][1] = "LBRACE"
    /\ IsCall(SubSeq(tokens, 4, Len(tokens) - 1))
    /\ tokens[Len(tokens)][1] = "RBRACE"

\* C1: a call statement `name(arg; arg; ...)` inside an if-body is parsed into
\* exactly one FUNCTION_CALL node whose first child is the IDENTIFIER node of
\* the callee and whose other children are the argument nodes in call order.
C1_CallStatementParsed ==
    (pc \in {"returned", "parse_raised"} /\ IsIfWithOneCall)
    => /\ pc = "returned"
       /\ ast = << [type |-> "IF",
                    children |-> << ExpressionNode(tokens[2]),
                                    [type |-> "BODY",
                                     children |-> <<CallNode(SubSeq(tokens, 4, Len(tokens) - 1))>>,
                                     value |-> <<>>] >>,
                    value |-> <<>>] >>

\* the top-level loop is at an IF whose condition and LBRACE follow: the step
\* opens a body
OpensBody ==
    /\ AtTopLevel("IF")
    /\ index + 3 <= Len(tokens)
    /\ IsExpressionToken(tokens[index + 2])
    /\ tokens[index + 3][1] = "LBRACE"

\* the number of BODY nodes in a list of nodes
RECURSIVE CountBodies(_)
CountBodies(nodes) ==
    IF nodes = <<>> THEN 0
    ELSE (IF Head(nodes).type = "BODY" THEN 1 ELSE 0)
         + CountBodies(Head(nodes).children) + CountBodies(Tail(nodes))

\* the number of tokens of a kind among the first n tokens
CountKind(toks, n, kind) == Cardinality({k \in 1..n : toks[k][1] = kind})

\* every BODY node parse has built stands for one consumed RBRACE
BodiesAreClosed ==
    pc \in {"parse", "returned"} => CountBodies(ast) = CountKind(tokens, index, "RBRACE")

\* C2: when the tokens run out while a body opened by LBRACE is unclosed, parse
\* fails with a parser error and returns no tree; no BODY node is returned
\* without its closing RBRACE having been consumed.
C2_UnclosedBodyIsParserError ==
    /\ [][(OpensBody /\ pc' = "parse_raised" /\ index' = Len(tokens))
          => IsParserError(raised')]_vars
    /\ [][(OpensBody /\ index' = Len(tokens) /\ pc' # "parse_raised")
          => tokens[Len(tokens)][1] = "RBRACE"]_vars
    /\ []BodiesAreClosed

\* C3: parse either returns or fails with a parser error; it never fails with
\* any other kind of fault.
C3_OnlyParserErrors == pc = "parse_raised" => IsParserError(raised)

\* the number of double quotes among the first p characters
QuotesBefore(s, p) == Cardinality({k \in 1..p : s[k] = "\""})

\* the positions where a comment starts outside a string literal, up to the
\* first one
CommentStarts(s) ==
    {p \in 0..(Len(s) - 1) : ReCOMMENT(s, p) # NoMatch /\ QuotesBefore(s, p) % 2 = 0}
HasComment(s) == CommentStarts(s) # {}
FirstComment(s) == CHOOSE p \in CommentStarts(s) : \A q \in CommentStarts(s) : p <= q

\* the text with its first comment removed
WithoutComment(s) ==
    SubSeq(s, 1, FirstComment(s)) \o SubSeq(s, ReCOMMENT(s, FirstComment(s)) + 1, Len(s))

\* the text tokenises completely
Tokenises(s) == lexer(s).raised = NoError

\* the text  variable x = "a"; // note\n
CommentExample ==
    <<"v","a","r","i","a","b","l","e"," ","x"," ","="," ","\"","a","\"",";"," ","/","/"," ","n","o","t","e","\n">>

\* C4: lexer, applied to a text that contains a comment, returns the tokens it
\* returns for the text with the comment removed, and never a COMMENT token.
C4_CommentElision ==
    (/\ pc # "lexer"
     /\ HasComment(input_text)
     /\ Tokenises(WithoutComment(input_text)) \/ input_text = CommentExample)
    => /\ pc # "lexer_raised"
       /\ lex_tokens = lexer(WithoutComment(input_text)).tokens
       /\ \A k \in 1..Len(lex_tokens) : lex_tokens[k][1] # "COMMENT"

\* no rule of TOKEN_TYPES matches at p
NoRuleAt(s, p) == \A k \in 1..Len(TOKEN_TYPES) : RuleMatch(k, s, p) = NoMatch

\* the index of the first @ of a text that has one
FirstAt(s) ==
    CHOOSE p \in 0..(Len(s) - 1) : s[p + 1] = "@" /\ \A q \in 0..(p - 1) : s[q + 1] # "@"

\* the last match of a text that tokenises is a line comment, which runs to
\* the end of the text
EndsInLineComment(s) ==
    /\ lexer(s).match # NoneMatch
    /\ TOKEN_TYPES[lexer(s).match.rule] = "COMMENT"
    /\ Lit(s, lexer(s).match.start, <<"/", "/">>) # NoMatch

\* lexer raised: at a position inside the text where no rule matches, with
\* that position in the error, and nothing returned to the caller
RaisedAtUnmatched ==
    pc = "lexer_raised"
    => /\ position < Len(input_text)
       /\ NoRuleAt(input_text, position)
       /\ raised.exc = "Exception"
       /\ raised.msg = "Lexer error: Unrecognized token at position"
       /\ raised.position = position
       /\ tokens = <<>> /\ ast = <<>>

\* a text with an @ after a prefix that tokenises completely, the @ outside
\* any string literal or comment: lexer fails at the index of the @
FailsAtFirstAt ==
    (pc # "lexer" /\ \E k \in 1..Len(input_text) : input_text[k] = "@")
    => LET prefix == SubSeq(input_text, 1, FirstAt(input_text))
       IN  (Tokenises(prefix) /\ ~EndsInLineComment(prefix))
           => /\ pc = "lexer_raised"
              /\ raised.position = FirstAt(input_text)

\* C5: lexer fails exactly when its scan reaches a position p < len(text) at
\* which no rule matches; the error reports that p and no token list is
\* returned; for a text whose prefix before the first @ tokenises and whose @
\* is outside any string or comment, p is the index of the @.
C5_LexerFailurePosition ==
    /\ []RaisedAtUnmatched
    /\ []FailsAtFirstAt
    /\ [][(pc = "lexer" /\ position < Len(input_text) /\ NoRuleAt(input_text, position))
          => (pc' = "lexer_raised" /\ raised'.position = position)]_vars
    /\ [][(pc = "lexer" /\ pc' = "parse")
          => (position = Len(input_text) /\ tokens' = lex_tokens)]_vars

\* lexer failed at the @ of  B@  after emitting the token of B
C5_Witness ==
    /\ input_text = <<"B", "@">>
    /\ pc = "lexer_raised"
    /\ lex_tokens = << <<"IDENTIFIER", "B">> >>
    /\ raised.position = 1

\* C6: lexing and parsing  import a.b.c;  yields exactly one IMPORT node whose
\* value is a.b.c.
C6_ImportParsed ==
    (Finished /\ input_text = <<"i","m","p","o","r","t"," ","a",".","b",".","c",";">>)
    => /\ pc = "returned"
       /\ ast = << [type |-> "IMPORT", children |-> <<>>, value |-> <<"a.b.c">>] >>

\* C7: lexing and parsing a top-level  variable name [->annotation] = value
\* yields exactly one VARIABLE node whose value is (name, annotation or none,
\* value), with no trailing semicolon required.
C7_VariableParsed ==
    /\ (Finished /\ input_text = <<"v","a","r","i","a","b","l","e"," ","y"," ","="," ","z">>)
       => /\ pc = "returned"
          /\ ast = << [type |-> "VARIABLE", children |-> <<>>,
                       value |-> << <<"y">>, <<>>, <<"z">> >>] >>
    /\ (Finished /\ input_text = <<"v","a","r","i","a","b","l","e"," ","x","-",">","t","=","t","r","u","e">>)
       => /\ pc = "returned"
          /\ ast = << [type |-> "VARIABLE", children |-> <<>>,
                       value |-> << <<"x">>, <<"t">>, <<"bool", "True">> >>] >>

\* C8: lexing and parsing  class A  (function f) yields exactly one CLASS
\* (FUNCTION) node whose value is the name written after the keyword.
C8_DeclarationParsed ==
    /\ (Finished /\ input_text = <<"c","l","a","s","s"," ","A">>)
       => /\ pc = "returned"
          /\ ast = << [type |-> "CLASS", children |-> <<>>, value |-> <<"A">>] >>
    /\ (Finished /\ input_text = <<"f","u","n","c","t","i","o","n"," ","f">>)
       => /\ pc = "returned"
          /\ ast = << [type |-> "FUNCTION", children |-> <<>>, value |-> <<"f">>] >>

\* the text  )  lexes to the single token RPAREN and is refused by parse
RParenRefusedByParse ==
    input_text = <<")">>
    => /\ pc # "lexer_raised"
       /\ pc # "returned"
       /\ pc # "lexer" => tokens = << <<"RPAREN", ")">> >>

\* C9: when the next token at top level has a kind other than FOLDER, CLASS,
\* VARIABLE, FUNCTION, IF, IMPORT (or COMMENT), parse fails with a parser
\* error that names that token and returns no nodes; the text  )  lexes to a
\* single RPAREN token and the failure is raised by parse, not by lexer.
C9_UnexpectedTopLevelToken ==
    /\ [][(/\ pc = "parse"
           /\ peek(tokens, index) # None
           /\ peek(tokens, index)[1] \notin {"FOLDER", "CLASS", "VARIABLE", "FUNCTION",
                                             "IF", "IMPORT", "COMMENT"})
          => /\ pc' = "parse_raised"
             /\ IsParserError(raised')
             /\ raised'.found = tokens[index + 1]]_vars
    /\ []RParenRefusedByParse

\* parse refused the RPAREN token of the text  )
C9_Witness ==
    /\ input_text = <<")">>
    /\ pc = "parse_raised"
    /\ raised.msg = "Parser error: Unexpected token"
    /\ raised.found = <<"RPAREN", ")">>

\* the tokens at i, i + 1, i + 2 (0-based) are YEET STRING SEMICOLON
IsYeetAt(toks, i) ==
    /\ i + 3 <= Len(toks)
    /\ toks[i + 1][1] = "YEET"
    /\ toks[i + 2][1] = "STRING"
    /\ toks[i + 3][1] = "SEMICOLON"

\* the YEET node of the statement at i
YeetNode(toks, i) == [type |-> "YEET", children |-> <<>>, value |-> <<toks[i + 2][2]>>]

\* tokens starts  IF expr LBRACE  followed by n yeet statements and RBRACE
IsIfWithYeets(n) ==
    /\ 3 * n + 4 <= Len(tokens)
    /\ tokens[1][1] = "IF"
    /\ IsExpressionToken(tokens[2])
    /\ tokens[3][1] = "LBRACE"
    /\ \A k \in 0..(n - 1) : IsYeetAt(tokens, 3 + 3 * k)
    /\ tokens[3 * n + 4][1] = "RBRACE"

\* C10: inside a body the tokens YEET STRING SEMICOLON are parsed into exactly
\* one YEET node whose value is the string's lexeme; exactly those three
\* tokens are consumed and no other node is added to the body for them.
C10_YeetStatement ==
    /\ \A i \in 0..(Len(tokens) - 3) :
          IsYeetAt(tokens, i)
          => /\ IsOk(parse_statement(tokens, i))
             /\ parse_statement(tokens, i).index = i + 3
             /\ parse_statement(tokens, i).val = YeetNode(tokens, i)
    /\ \A n \in 1..Len(tokens) :
          (IsIfWithYeets(n) /\ index >= 3 * n + 4)
          => /\ Len(ast) >= 1
             /\ ast[1] = [type |-> "IF",
                          children |-> << ExpressionNode(tokens[2]),
                                          [type |-> "BODY",
                                           children |-> [k \in 1..n |->
                                                           YeetNode(tokens, 3 * k)],
                                           value |-> <<>>] >>,
                          value |-> <<>>]

\* parse returned the tree of  if x { yeet "boom"; }
C10_Witness ==
    /\ pc = "returned"
    /\ tokens = << <<"IF", "if">>, <<"IDENTIFIER", "x">>, <<"LBRACE", "{">>,
                   <<"YEET", "yeet">>, <<"STRING", "\"boom\"">>, <<"SEMICOLON", ";">>,
                   <<"RBRACE", "}">> >>
    /\ ast = << [type |-> "IF",
                 children |-> << [type |-> "IDENTIFIER", children |-> <<>>, value |-> <<"x">>],
                                 [type |-> "BODY",
                                  children |-> << [type |-> "YEET", children |-> <<>>,
                                                   value |-> <<"\"boom\"">>] >>,
                                  value |-> <<>>] >>,
                 value |-> <<>>] >>

\* the token kinds of the language
TokenKinds ==
    {"FOLDER", "CLASS", "VARIABLE", "FUNCTION", "IF", "NOT", "ELSE", "IMPORT",
     "IDENTIFIER", "STRING", "LPAREN", "RPAREN", "LBRACE", "RBRACE", "SEMICOLON",
     "DOT", "YEET", "ARROW", "BOOLEAN"}

\* C11: every token lexer emits has a kind in the closed set of token kinds,
\* also when a bare identifier equal to a reserved word is re-classified.
C11_ClosedTokenKinds ==
    \A k \in 1..Len(lex_tokens) : lex_tokens[k][1] \in TokenKinds

\* the rules that match at position p
MatchingRules(s, p) == {j \in 1..Len(TOKEN_TYPES) : RuleMatch(j, s, p) # NoMatch}

\* the first of them in the declared order
FirstMatching(s, p) == CHOOSE j \in MatchingRules(s, p) : \A l \in MatchingRules(s, p) : j <= l

\* the number a rule has in the list of 15, where the six punctuation rules
\* are one entry
RuleNumber(k) == IF k <= 11 THEN k ELSE IF k <= 17 THEN 12 ELSE k - 5

\* the kind of the token of rule k for the lexeme v
KindOf(k, v) ==
    IF TOKEN_TYPES[k] = "IDENTIFIER" /\ v \in {"if", "not", "but", "otherwise", "yeet", "import"}
    THEN StrUpper(v)
    ELSE TOKEN_TYPES[k]

\* an iteration that matched took the first matching rule, its match and its
\* lexeme
FirstMatchTaken ==
    (pc = "lexer" /\ pc' = "lexer" /\ position' # position)
    => LET k == FirstMatching(input_text, position)
           v == Join(SubSeq(input_text, position + 1, RuleMatch(k, input_text, position)))
       IN  /\ MatchingRules(input_text, position) # {}
           /\ match'.rule = k
           /\ \A l \in MatchingRules(input_text, position) : RuleNumber(k) <= RuleNumber(l)
           /\ position' = RuleMatch(k, input_text, position)
           /\ lex_tokens' = IF TOKEN_TYPES[k] = "COMMENT" THEN lex_tokens
                            ELSE Append(lex_tokens, <<KindOf(k, v), v>>)

\* importer is one IDENTIFIER token; import a.b.c is one IMPORT token
ImportWords ==
    /\ (pc # "lexer" /\ input_text = <<"i", "m", "p", "o", "r", "t", "e", "r">>)
       => (pc # "lexer_raised" /\ lex_tokens = << <<"IDENTIFIER", "importer">> >>)
    /\ (pc # "lexer" /\ input_text = <<"i", "m", "p", "o", "r", "t", " ", "a", ".", "b", ".", "c">>)
       => (pc # "lexer_raised" /\ lex_tokens = << <<"IMPORT", "import a.b.c">> >>)

\* C12: at every cursor position the token lexer produces is the match of the
\* first rule, in the declared order of the rules, that matches at the
\* cursor, even when a later rule would match a longer lexeme; importer
\* tokenises as a single IDENTIFIER token, import a.b.c as a single IMPORT
\* token.
C12_FirstMatchingRule ==
    /\ {RuleNumber(k) : k \in 1..Len(TOKEN_TYPES)} = 1..15
    /\ [][FirstMatchTaken]_vars
    /\ []ImportWords

\* ifyeet was split into IF and YEET although the IDENTIFIER rule matches all
\* of it at position 0
C12_Witness ==
    /\ input_text = <<"i", "f", "y", "e", "e", "t">>
    /\ pc = "parse"
    /\ tokens = << <<"IF", "if">>, <<"YEET", "yeet">> >>
    /\ ReIDENTIFIER(input_text, 0) = 6

\* the indices at which parse's while loop, started at i, looks at a token
RECURSIVE TopLevelStarts(_, _)
TopLevelStarts(toks, i) ==
    IF peek(toks, i) = None THEN {}
    ELSE {i} \cup (IF IsOk(iteration(toks, i))
                   THEN TopLevelStarts(toks, iteration(toks, i).index)
                   ELSE {})

\* the positions (1-based) of the top-level FOLDER tokens
TopLevelFolders(toks) == {i + 1 : i \in {j \in TopLevelStarts(toks, 0) : toks[j + 1][1] = "FOLDER"}}

\* toks from position k on, without the positions in drop
RECURSIVE DropAt(_, _, _)
DropAt(toks, drop, k) ==
    IF k > Len(toks) THEN <<>>
    ELSE (IF k \in drop THEN <<>> ELSE <<toks[k]>>) \o DropAt(toks, drop, k + 1)

\* the token sequence with its top-level FOLDER tokens removed
WithoutFolders(toks) == DropAt(toks, TopLevelFolders(toks), 1)

\* parse returns for tokens what it returns for them without the top-level
\* FOLDER tokens
SameWithoutFolders ==
    /\ IsOk(parse(tokens)) <=> IsOk(parse(WithoutFolders(tokens)))
    /\ IsOk(parse(tokens)) => parse(tokens).val = parse(WithoutFolders(tokens)).val
    /\ pc = "returned" => (IsOk(parse(tokens)) /\ ast = parse(WithoutFolders(tokens)).val)

\* C13: a top-level FOLDER token is parsed and discarded: parsing it consumes
\* exactly that one token and leaves the result list unchanged, so the node
\* list parse returns for a token sequence is the one it returns for the
\* sequence with its top-level FOLDER tokens removed.
C13_FolderDiscarded ==
    /\ [][AtTopLevel("FOLDER")
          => (index' = index + 1 /\ ast' = ast /\ pc' = "parse" /\ raised' = raised)]_vars
    /\ []SameWithoutFolders

\* parse returned a tree for tokens with a FOLDER token before an if
C13_Witness ==
    /\ pc = "returned"
    /\ Len(tokens) >= 2
    /\ tokens[1][1] = "FOLDER"
    /\ tokens[2][1] = "IF"
    /\ Len(ast) = 1
    /\ ast[1].type = "IF"

\* the node kinds of statements
StatementKinds == {"IF", "FUNCTION_CALL", "ASSIGNMENT", "YEET", "IMPORT"}

\* every IF node in the tree of n has two children, an expression node and a
\* BODY node whose children are statement nodes
RECURSIVE WellFormed(_)
WellFormed(n) ==
    n.type = "IF"
    => /\ Len(n.children) = 2
       /\ n.children[1].type \in {"IDENTIFIER", "STRING"}
       /\ n.children[1].children = <<>>
       /\ n.children[2].type = "BODY"
       /\ \A k \in 1..Len(n.children[2].children) :
             /\ n.children[2].children[k].type \in StatementKinds
             /\ WellFormed(n.children[2].children[k])

\* the statements of a list of nodes in tree order, each with what it was
\* given: an if with its condition, a yeet with its string
RECURSIVE NodeMarks(_)
NodeMarks(nodes) ==
    IF nodes = <<>> THEN <<>>
    ELSE (IF Head(nodes).type = "IF"
          THEN << <<"IF", Head(nodes).children[1].type, Head(nodes).children[1].value[1]>> >>
               \o NodeMarks(Head(nodes).children[2].children)
          ELSE IF Head(nodes).type = "YEET"
          THEN << <<"YEET", Head(nodes).value[1]>> >>
          ELSE IF Head(nodes).type = "IMPORT"
          THEN << <<"IMPORT">> >>
          ELSE <<>>)
         \o NodeMarks(Tail(nodes))

\* the same of the tokens from position k on, in input order: the tokens IF,
\* YEET and IMPORT each start a statement
RECURSIVE TokenMarks(_, _)
TokenMarks(toks, k) ==
    IF k > Len(toks) THEN <<>>
    ELSE (IF toks[k][1] = "IF" /\ k < Len(toks)
          THEN << <<"IF", toks[k + 1][1], toks[k + 1][2]>> >>
          ELSE IF toks[k][1] = "YEET" /\ k < Len(toks)
          THEN << <<"YEET", toks[k + 1][2]>> >>
          ELSE IF toks[k][1] = "IMPORT"
          THEN << <<"IMPORT">> >>
          ELSE <<>>)
         \o TokenMarks(toks, k + 1)

\* C14: in every tree parse returns, every IF node has exactly two children,
\* an expression node (IDENTIFIER or STRING) and then a BODY node, every child
\* of a BODY node is a statement node (IF, FUNCTION_CALL, ASSIGNMENT, YEET or
\* IMPORT), and the children are in the order of their tokens in the input.
C14_TreeShape ==
    pc = "returned"
    => /\ \A k \in 1..Len(ast) : WellFormed(ast[k])
       /\ NodeMarks(ast) = TokenMarks(tokens, 1)

\* parse returned an if whose body holds an import and then a yeet
C14_Witness ==
    /\ pc = "returned"
    /\ Len(ast) = 1
    /\ ast[1].type = "IF"
    /\ Len(ast[1].children[2].children) = 2
    /\ ast[1].children[2].children[1].type = "IMPORT"
    /\ ast[1].children[2].children[2].type = "YEET"

\* between iterations the cursor is 0 before any match and the end of the last
\* match after it, and never beyond the text
CursorAtLastMatch ==
    pc = "lexer"
    => /\ position >= 0 /\ position <= Len(input_text)
       /\ IF match = NoneMatch THEN position = 0 /\ lex_tokens = <<>>
          ELSE position = match.end

\* an iteration that matched: the match starts at the cursor, is not empty,
\* ends inside the text and is the new cursor; its lexeme is the matched text
\* and is appended unless it is a comment
MatchIsNextPiece ==
    (pc = "lexer" /\ pc' = "lexer" /\ match' # match)
    => /\ match'.start = position
       /\ match'.end = position'
       /\ position < position'
       /\ position' <= Len(input_text)
       /\ IF TOKEN_TYPES[match'.rule] = "COMMENT"
          THEN lex_tokens' = lex_tokens
          ELSE /\ Len(lex_tokens') = Len(lex_tokens) + 1
               /\ SubSeq(lex_tokens', 1, Len(lex_tokens)) = lex_tokens
               /\ lex_tokens'[Len(lex_tokens')][2] =
                      Join(SubSeq(input_text, position + 1, position'))

\* lexer returns with the cursor at the end of the text
ReturnsAtEnd ==
    (pc = "lexer" /\ pc' = "parse")
    => (position = Len(input_text) /\ position' = position /\ lex_tokens' = lex_tokens)

\* C15: whenever lexer returns, the matched lexemes (emitted tokens and
\* dropped comments) are contiguous, non-overlapping and in source order, and
\* cover the input exactly from position 0 to len(text); the final cursor is
\* len(text).
C15_ContiguousCoverage ==
    /\ []CursorAtLastMatch
    /\ [][MatchIsNextPiece]_vars
    /\ [][ReturnsAtEnd]_vars
    /\ [](pc \in {"parse", "returned", "parse_raised"} /\ input_text # <<>>
          => position = Len(input_text) /\ match.end = Len(input_text))

\* lexer returned for  B/**/  after a token and a dropped comment
C15_Witness ==
    /\ input_text = <<"B", "/", "*", "*", "/">>
    /\ pc = "parse"
    /\ lex_tokens = << <<"IDENTIFIER", "B">> >>
    /\ match.start = 1
    /\ position = 5

\* every match of a rule inside the text is non-empty (the text never
\* changes: it is looked at when lexer starts)
MatchesAreNonEmpty ==
    (pc = "lexer" /\ position = 0)
    => \A k \in 1..Len(TOKEN_TYPES) : \A p \in 0..(Len(input_text) - 1) :
           RuleMatch(k, input_text, p) # NoMatch => RuleMatch(k, input_text, p) > p

\* a statement that parse_statement parses takes at least one token, so an
\* iteration of parse_body's loop raises or increases the index (the tokens
\* never change: they are looked at when parse starts)
StatementsAdvance ==
    (pc = "parse" /\ index = 0)
    => \A i \in 0..(Len(tokens) - 1) :
           IsOk(parse_statement(tokens, i)) => parse_statement(tokens, i).index > i

\* C16: lexer terminates on every text and parse on every token sequence:
\* every lexer iteration fails or strictly advances the cursor (every rule
\* match is non-empty), and every iteration of parse's top-level loop and of
\* parse_body's statement loop raises or strictly increases the token index.
C16_Termination ==
    /\ <>Finished
    /\ []MatchesAreNonEmpty
    /\ []StatementsAdvance
    /\ [][(pc = "lexer" /\ position < Len(input_text))
          => (pc' = "lexer_raised" \/ position' > position)]_vars
    /\ [][(pc = "parse" /\ peek(tokens, index) # None)
          => (pc' = "parse_raised" \/ index' > index)]_vars

\* parse returned after the top-level loop passed a comment and an if whose
\* body loop parsed two statements
C16_Witness ==
    /\ pc = "returned"
    /\ Len(tokens) = 11
    /\ tokens[1][1] = "COMMENT"
    /\ index = 11
    /\ Len(ast) = 1
    /\ Len(ast[1].children[2].children) = 2

\* what parse_value is to return for a token
ValueOf(token) == IF token[1] = "BOOLEAN" THEN PyBool(token[2] = "true") ELSE PyStr(token[2])

\* C17: when parse_value succeeds on a STRING, BOOLEAN or IDENTIFIER token it
\* consumes exactly that token and returns the string lexeme, the logical
\* value or the identifier's name; so after a variable declaration the last
\* token consumed is its value, and the next token the parser looks at is the
\* one following it.
C17_ParseValueConsumesOne ==
    [][(AtTopLevel("VARIABLE") /\ Len(ast') = Len(ast) + 1)
       => /\ index' >= index + 4
          /\ tokens[index' - 1][1] = "EQUALS"
          /\ tokens[index'][1] \in {"STRING", "BOOLEAN", "IDENTIFIER"}
          /\ ast'[Len(ast')].value[3] = ValueOf(tokens[index'])]_vars

\* the kinds the parser's functions pass to consume
ConsumedKinds ==
    {"IMPORT", "IDENTIFIER", "DOT", "SEMICOLON", "FOLDER", "CLASS", "VARIABLE", "ARROW",
     "EQUALS", "FUNCTION", "IF", "LBRACE", "RBRACE", "LPAREN", "RPAREN", "STRING", "YEET"}

\* consume at every index of the tokens, for every kind: the token and the
\* index after it when the kinds agree, else an error and the same index (the
\* tokens never change: they are looked at when parse starts)
ConsumeContract ==
    (pc = "parse" /\ index = 0)
    => \A i \in 0..Len(tokens) : \A kind \in ConsumedKinds :
           IF i < Len(tokens) /\ tokens[i + 1][1] = kind
           THEN /\ IsOk(consume(tokens, i, kind))
                /\ consume(tokens, i, kind).val = tokens[i + 1]
                /\ consume(tokens, i, kind).index = i + 1
           ELSE /\ ~IsOk(consume(tokens, i, kind))
                /\ consume(tokens, i, kind).err.expected = kind
                /\ consume(tokens, i, kind).index = i

\* peek returns None exactly at the end of the tokens, and the functions
\* called at an index inside the tokens end at an index inside them, not
\* before the one they started at
PeekAndIndexInRange ==
    /\ index >= 0 /\ index <= Len(tokens)
    /\ (peek(tokens, index) = None) <=> (index = Len(tokens))
    /\ (pc = "parse" /\ index = 0)
       => /\ \A i \in 0..Len(tokens) : (peek(tokens, i) = None) <=> (i = Len(tokens))
          /\ \A i \in 0..(Len(tokens) - 1) :
                /\ iteration(tokens, i).index \in i..Len(tokens)
                /\ parse_statement(tokens, i).index \in i..Len(tokens)

\* C18: consume(kind) returns the current token and increases the index by
\* exactly 1 when the current token's kind is kind, otherwise it raises and
\* leaves the index unchanged; throughout every run of parse,
\* 0 <= index <= len(tokens), the index never decreases, and peek returns
\* None exactly when index = len(tokens).
C18_ConsumePeekIndex ==
    /\ []ConsumeContract
    /\ []PeekAndIndexInRange
    /\ [][index' >= index]_vars

\* parse consumed IF, an expression and LBRACE and then failed to consume
\* RBRACE at the end of the tokens, where peek returns None
C18_Witness ==
    /\ pc = "parse_raised"
    /\ raised.expected = "RBRACE"
    /\ raised.found = None
    /\ index = Len(tokens)
    /\ index = 3

====
